---- MODULE Spec2Model ----
(***************************************************************************)
(* A model of slideshow.py: the photo loader (lire_input), the slide       *)
(* generator (creer_slides), the score function (calculer_score), the      *)
(* 0/1 model handed to the solver (construire_modele), the extraction of   *)
(* the sequence from the solver's assignment (get_solution) and the        *)
(* writer (ecrire_solution), driven as main() drives them.                 *)
(*                                                                         *)
(* Tags are the numbers 1..k, each standing for one distinct tag string.   *)
(* Slide indices, positions and photo ids are 0-based as in the code;      *)
(* the sequences holding them are 1-based, so slide i is slides[i + 1].    *)
(***************************************************************************)
EXTENDS Integers, Sequences, FiniteSets, TLC

VARIABLES
    pc,               \* the statement of main() (or of a single function) to run next
    file,             \* the input file: [n, lines], each line split into its fields
    photos,           \* lire_input's result: sequence of [id, orientation, tags]
    slides,           \* creer_slides' result: sequence of [photo_ids, tags]
    model,            \* the model construire_modele built: [n, solutions, obj]
    incumbent,        \* the solver's best assignment so far (slide_vars[..].X), or NoSol
    status,           \* the solver's status after optimize()
    slides_retenues,  \* get_solution's result
    output,           \* what ecrire_solution wrote: [count, lines], or NoOutput
    tags1,            \* calculer_score's first argument
    tags2,            \* calculer_score's second argument
    score             \* calculer_score's return value, or NoScore

vars == <<pc, file, photos, slides, model, incumbent, status,
          slides_retenues, output, tags1, tags2, score>>

\* ------------------------------------------------------------------ bounds

\* The pipeline (Spec): at most MaxPhotos photos, each carrying TagWidth
\* consecutive tags of 1..MaxTag.
MaxPhotos == 3
MaxTag == 3
TagWidth == 2

\* The pipeline on larger universes (SpecGap): at most GapPhotos photos, at
\* most GapVerticals of them vertical, each with no tag or with GapTagWidth
\* consecutive tags of 1..GapMaxTag.
GapPhotos == 4
GapVerticals == 2
GapMaxTag == 6
GapTagWidth == 4

\* The slide generator alone (SpecSlides).
SlidesPhotos == 5

\* The loader on arbitrary records (SpecLoad).
LoadLines == 2
LoadMaxTag == 2
LoadMaxTokens == 2
LoadMaxNumTags == 3

\* The score function on arbitrary tag sets (SpecScore).
ScoreMaxTag == 6

\* ----------------------------------------------------------------- helpers

\* The solver holds no solution (its SolCount is 0).
NoSol == [SolCount |-> 0, X |-> {}]

Sol(X) == [SolCount |-> 1, X |-> X]

\* Nothing written yet.
NoOutput == [count |-> -1, lines |-> <<>>]

\* No score computed yet.
NoScore == "None"

NoModel == [n |-> 0, solutions |-> {}, obj |-> <<>>]

MinOf(S) == CHOOSE x \in S : \A y \in S : x <= y

MaxOf(S) == CHOOSE x \in S : \A y \in S : x >= y

SeqsUpTo(S, k) == UNION {[1..m -> S] : m \in 0..k}

\* ------------------------------------------------------------- lire_input

\* tags = set(line[2:2+num_tags]): the slice is clipped to the tokens present.
TagsOfLine(line) ==
    LET last == IF line.num_tags < Len(line.tokens)
                THEN line.num_tags ELSE Len(line.tokens)
    IN  {line.tokens[k] : k \in 1..last}

\* f.readline() past the end of the file gives '', whose split() is [], and
\* line[0] raises IndexError.
LireInputFails(f) == f.n > Len(f.lines)

lire_input(f) ==
    [i \in 1..f.n |-> [id |-> i - 1,
                       orientation |-> f.lines[i].orientation,
                       tags |-> TagsOfLine(f.lines[i])]]

\* ----------------------------------------------------------- creer_slides

Horizontales(p) == SelectSeq(p, LAMBDA ph : ph.orientation = "H")

verticales(p) == SelectSeq(p, LAMBDA ph : ph.orientation = "V")

SlideH(ph) == [photo_ids |-> <<ph.id>>, tags |-> ph.tags]

SlideV(ph1, ph2) == [photo_ids |-> <<ph1.id, ph2.id>>, tags |-> ph1.tags \cup ph2.tags]

\* for j in range(i + 1, len(verticales)): where the inner loop starts.
InnerStart_self(i) == i

InnerStart(i) == i + 1

\* The two nested loops over verticales (1-based here), appending one slide
\* per (i, j).
RECURSIVE PairLoop(_, _, _)
PairLoop(v, i, j) ==
    IF i > Len(v) THEN <<>>
    ELSE IF j > Len(v) THEN PairLoop(v, i + 1, InnerStart(i + 1))
    ELSE <<SlideV(v[i], v[j])>> \o PairLoop(v, i, j + 1)

creer_slides(p) ==
    LET h == Horizontales(p)
        v == verticales(p)
    IN  [k \in 1..Len(h) |-> SlideH(h[k])] \o PairLoop(v, 1, InnerStart(1))

\* --------------------------------------------------------- calculer_score

\* Python's min(a, b, c).
Min3(a, b, c) == IF a <= b /\ a <= c THEN a ELSE IF b <= c THEN b ELSE c

calculer_score_two(t1, t2) ==
    LET tags_communs == Cardinality(t1 \cap t2)
        tags_uniquement_1 == Cardinality(t1 \ t2)
    IN  Min3(tags_communs, tags_uniquement_1, tags_uniquement_1)

calculer_score(t1, t2) ==
    LET tags_communs == Cardinality(t1 \cap t2)
        tags_uniquement_1 == Cardinality(t1 \ t2)
        tags_uniquement_2 == Cardinality(t2 \ t1)
    IN  Min3(tags_communs, tags_uniquement_1, tags_uniquement_2)

\* ------------------------------------------------------ construire_modele

\* An assignment of the binary variables slide_vars[i, pos] is the set X of
\* the pairs <<i, pos>> whose variable is 1.
Indices(s) == 0..(Len(s) - 1)

slide_var(X, i, pos) == IF <<i, pos>> \in X THEN 1 ELSE 0

\* quicksum(slide_vars[i, pos] for i in range(len(slides))) <= 1, every pos:
\* the sum is the number of variables of the position that are 1.
PositionConstraint(X, s) ==
    \A pos \in Indices(s) : Cardinality({x \in X : x[2] = pos}) <= 1

\* quicksum(slide_vars[i, pos] for pos in range(len(slides))) <= 1, every i.
SlideConstraint(X, s) ==
    \A i \in Indices(s) : Cardinality({x \in X : x[1] = i}) <= 1

\* The photo ids the slides hold.
PhotoIds(s) == UNION {{s[k].photo_ids[m] : m \in 1..Len(s[k].photo_ids)} : k \in 1..Len(s)}

\* utilisations_photo[photo_id] holds slide_vars[slide_idx, pos], every pos,
\* once per occurrence m of photo_id in the photo_ids of slide_idx; these are
\* its entries <<slide_idx, m, pos>> that are 1, whose number is the sum.
Utilisations(X, s, photo_id) ==
    {u \in UNION {{<<x[1], m, x[2]>> : m \in 1..Len(s[x[1] + 1].photo_ids)} : x \in X} :
        s[u[1] + 1].photo_ids[u[2]] = photo_id}

PhotoConstraint_first(X, s) ==
    \A photo_id \in PhotoIds(s) :
        Cardinality({u \in Utilisations(X, s, photo_id) : u[2] = 1}) <= 1

PhotoConstraint(X, s) ==
    \A photo_id \in PhotoIds(s) : Cardinality(Utilisations(X, s, photo_id)) <= 1

\* quicksum(slide_vars[i, 0] for i in range(len(slides))) >= 1.
AtLeastOneSlide(X, s) == Cardinality({x \in X : x[2] = 0}) >= 1

\* Every constraint added to the model.
Feasible(X, s) ==
    /\ AtLeastOneSlide(X, s)
    /\ SlideConstraint(X, s)
    /\ PhotoConstraint(X, s)
    /\ PositionConstraint(X, s)

\* The objective's terms that are not 0: the (i, pos), (j, pos + 1) whose two
\* variables are both 1, each weighing calculer_score of the two slides.
RECURSIVE SumTerms(_, _)
SumTerms(T, s) ==
    IF T = {} THEN 0
    ELSE LET t == CHOOSE x \in T : TRUE
         IN  calculer_score(s[t[1][1] + 1].tags, s[t[2][1] + 1].tags)
                 + SumTerms(T \ {t}, s)

Objective(X, s) ==
    SumTerms({t \in X \X X : t[2][2] = t[1][2] + 1 /\ t[1][2] < Len(s) - 1}, s)

\* The assignments with at most one slide per position, written as the choice
\* of a slide (or of none, -1) for each position.  Every other assignment
\* puts two slides at one position and so violates PositionConstraint.
Candidates(s) ==
    {{<<f[pos], pos>> : pos \in {q \in Indices(s) : f[q] # -1}} :
        f \in [Indices(s) -> Indices(s) \cup {-1}]}

\* The model as the solver sees it: its feasible assignments and the value
\* of the objective on each.
construire_modele(s) ==
    LET sols == {X \in Candidates(s) : Feasible(X, s)}
    IN  [n |-> Len(s), solutions |-> sols, obj |-> [X \in sols |-> Objective(X, s)]]

\* ----------------------------------------------------------- get_solution

\* The inner loop: the first i with slide_vars[i, pos].X > 0.5, or -1.
FirstSlideAt(X, n, pos) ==
    LET S == {i \in 0..(n - 1) : slide_var(X, i, pos) = 1}
    IN  IF S = {} THEN -1 ELSE MinOf(S)

\* The outer loop from position pos on, acc being slides_retenues so far; it
\* stops at the first position where nothing was appended.
RECURSIVE GetLoop(_, _, _, _)
GetLoop(X, n, pos, acc) ==
    IF pos >= n THEN acc
    ELSE LET i == FirstSlideAt(X, n, pos)
         IN  IF i = -1 THEN acc ELSE GetLoop(X, n, pos + 1, Append(acc, i))

get_solution(X, s) == GetLoop(X, Len(s), 0, <<>>)

\* Reading slide_vars[i, pos].X raises when the solver holds no solution; the
\* first read happens in the first iteration, if there is one.
GetSolutionFails_eager(inc, s) == inc.SolCount = 0

GetSolutionFails(inc, s) == Len(s) > 0 /\ inc.SolCount = 0

\* -------------------------------------------------------- ecrire_solution

ecrire_solution(retenues, s) ==
    [count |-> Len(retenues),
     lines |-> [k \in 1..Len(retenues) |-> s[retenues[k] + 1].photo_ids]]

\* ------------------------------------------------------------------ inputs

\* The tag lists of W consecutive tags of 1..T.
Windows(T, W) == {[m \in 1..W |-> k + m - 1] : k \in 1..(T - W + 1)}

\* The well-formed files of at most P photos whose tag lists are among
\* TagLists: the declared count is the number of lines, every orientation is
\* H or V, every declared tag count is the number of tags on the line.
WellFormedFiles(P, TagLists) ==
    LET Lines == {[orientation |-> o, num_tags |-> Len(w), tokens |-> w] :
                      o \in {"H", "V"}, w \in TagLists}
    IN  {[n |-> Len(ls), lines |-> ls] : ls \in SeqsUpTo(Lines, P)}

\* Files as they come: any orientation symbol, declared counts that need not
\* match the tokens present, a declared photo count that need not match the
\* number of lines.
LoadFiles ==
    LET Lines == {[orientation |-> o, num_tags |-> m, tokens |-> t] :
                      o \in {"H", "V", "X"}, m \in 0..LoadMaxNumTags,
                      t \in SeqsUpTo(1..LoadMaxTag, LoadMaxTokens)}
    IN  {[n |-> k, lines |-> ls] : k \in 0..LoadLines, ls \in SeqsUpTo(Lines, LoadLines)}

\* ------------------------------------------------------------------- main

InitWith(f, start) ==
    /\ pc = start
    /\ file = f
    /\ photos = <<>>
    /\ slides = <<>>
    /\ model = NoModel
    /\ incumbent = NoSol
    /\ status = "LOADED"
    /\ slides_retenues = <<>>
    /\ output = NoOutput
    /\ tags1 = {}
    /\ tags2 = {}
    /\ score = NoScore

Init ==
    \E f \in WellFormedFiles(MaxPhotos, Windows(MaxTag, TagWidth)) :
        InitWith(f, "lire_input")

InitGap ==
    \E f \in WellFormedFiles(GapPhotos, Windows(GapMaxTag, GapTagWidth) \cup {<<>>}) :
        /\ Cardinality({i \in 1..f.n : f.lines[i].orientation = "V"}) <= GapVerticals
        /\ InitWith(f, "lire_input")

InitSlides ==
    \E f \in WellFormedFiles(SlidesPhotos, Windows(MaxTag, TagWidth)) :
        InitWith(f, "lire_input")

InitLoad == \E f \in LoadFiles : InitWith(f, "lire_input")

InitScore ==
    /\ pc = "calculer_score"
    /\ file = [n |-> 0, lines |-> <<>>]
    /\ photos = <<>>
    /\ slides = <<>>
    /\ model = NoModel
    /\ incumbent = NoSol
    /\ status = "LOADED"
    /\ slides_retenues = <<>>
    /\ output = NoOutput
    /\ tags1 \in SUBSET (1..ScoreMaxTag)
    /\ tags2 \in SUBSET (1..ScoreMaxTag)
    /\ score = NoScore

\* photos = lire_input(fichier_entree)
LireInput ==
    /\ pc = "lire_input"
    /\ ~LireInputFails(file)
    /\ photos' = lire_input(file)
    /\ pc' = "creer_slides"
    /\ UNCHANGED <<file, slides, model, incumbent, status, slides_retenues,
                   output, tags1, tags2, score>>

\* lire_input raises: main() ends with the exception.
LireInputError ==
    /\ pc = "lire_input"
    /\ LireInputFails(file)
    /\ pc' = "failed"
    /\ UNCHANGED <<file, photos, slides, model, incumbent, status,
                   slides_retenues, output, tags1, tags2, score>>

\* slides = creer_slides(photos)
CreerSlides ==
    /\ pc = "creer_slides"
    /\ slides' = creer_slides(photos)
    /\ pc' = "construire_modele"
    /\ UNCHANGED <<file, photos, model, incumbent, status, slides_retenues,
                   output, tags1, tags2, score>>

\* model, slide_vars = construire_modele(slides); model.Params.TimeLimit = 90
ConstruireModele ==
    /\ pc = "construire_modele"
    /\ model' = construire_modele(slides)
    /\ pc' = "optimize"
    /\ UNCHANGED <<file, photos, slides, incumbent, status, slides_retenues,
                   output, tags1, tags2, score>>

\* model.optimize(): the solver finds a first feasible assignment.
FindIncumbent ==
    /\ pc = "optimize"
    /\ incumbent.SolCount = 0
    /\ \E X \in model.solutions : incumbent' = Sol(X)
    /\ UNCHANGED <<pc, file, photos, slides, model, status, slides_retenues,
                   output, tags1, tags2, score>>

\* model.optimize(): the solver replaces its incumbent by a feasible
\* assignment of strictly higher objective.
Improve ==
    /\ pc = "optimize"
    /\ incumbent.SolCount = 1
    /\ \E X \in model.solutions :
          /\ model.obj[X] > model.obj[incumbent.X]
          /\ incumbent' = Sol(X)
    /\ UNCHANGED <<pc, file, photos, slides, model, status, slides_retenues,
                   output, tags1, tags2, score>>

\* model.optimize() returns: the incumbent is proved optimal.
ProveOptimal ==
    /\ pc = "optimize"
    /\ incumbent.SolCount = 1
    /\ \A X \in model.solutions : model.obj[X] <= model.obj[incumbent.X]
    /\ status' = "OPTIMAL"
    /\ pc' = "get_solution"
    /\ UNCHANGED <<file, photos, slides, model, incumbent, slides_retenues,
                   output, tags1, tags2, score>>

\* model.optimize() returns: the model is proved to have no solution.
ProveInfeasible ==
    /\ pc = "optimize"
    /\ model.solutions = {}
    /\ status' = "INFEASIBLE"
    /\ pc' = "get_solution"
    /\ UNCHANGED <<file, photos, slides, model, incumbent, slides_retenues,
                   output, tags1, tags2, score>>

\* model.optimize() returns: the 90 seconds are over, whatever the solver
\* has found by then.
TimeLimit ==
    /\ pc = "optimize"
    /\ status' = "TIME_LIMIT"
    /\ pc' = "get_solution"
    /\ UNCHANGED <<file, photos, slides, model, incumbent, slides_retenues,
                   output, tags1, tags2, score>>

\* slides_retenues = get_solution(slide_vars, slides)
GetSolution ==
    /\ pc = "get_solution"
    /\ ~GetSolutionFails(incumbent, slides)
    /\ slides_retenues' = get_solution(incumbent.X, slides)
    /\ pc' = "ecrire_solution"
    /\ UNCHANGED <<file, photos, slides, model, incumbent, status, output,
                   tags1, tags2, score>>

\* get_solution raises: main() ends with the exception, nothing is written.
GetSolutionError ==
    /\ pc = "get_solution"
    /\ GetSolutionFails(incumbent, slides)
    /\ pc' = "failed"
    /\ UNCHANGED <<file, photos, slides, model, incumbent, status,
                   slides_retenues, output, tags1, tags2, score>>

\* ecrire_solution(fichier_sortie, slides_retenues, slides)
EcrireSolution ==
    /\ pc = "ecrire_solution"
    /\ output' = ecrire_solution(slides_retenues, slides)
    /\ pc' = "done"
    /\ UNCHANGED <<file, photos, slides, model, incumbent, status,
                   slides_retenues, tags1, tags2, score>>

\* score = calculer_score(tags1, tags2)
CalculerScore ==
    /\ pc = "calculer_score"
    /\ score' = calculer_score(tags1, tags2)
    /\ pc' = "scored"
    /\ UNCHANGED <<file, photos, slides, model, incumbent, status,
                   slides_retenues, output, tags1, tags2>>

\* main() on a well-formed file.
Next ==
    \/ LireInput
    \/ CreerSlides
    \/ ConstruireModele
    \/ FindIncumbent
    \/ Improve
    \/ ProveOptimal
    \/ ProveInfeasible
    \/ TimeLimit
    \/ GetSolution
    \/ GetSolutionError
    \/ EcrireSolution

\* The loader and the slide generator alone.
NextLoad ==
    \/ LireInput
    \/ LireInputError
    \/ CreerSlides

\* The loader and the slide generator on well-formed files.
NextSlides ==
    \/ LireInput
    \/ CreerSlides

\* The score function alone.
NextScore == CalculerScore

Spec == Init /\ [][Next]_vars

SpecGap == InitGap /\ [][Next]_vars

SpecSlides == InitSlides /\ [][NextSlides]_vars

SpecLoad == InitLoad /\ [][NextLoad]_vars

SpecScore == InitScore /\ [][NextScore]_vars

\* ------------------------------------------------------------------ claims

\* The number of photos of orientation o.
CountOrientation(p, o) == Cardinality({k \in 1..Len(p) : p[k].orientation = o})

\* The photo ids of slide index i.
IdsOf(s, i) == {s[i + 1].photo_ids[m] : m \in 1..Len(s[i + 1].photo_ids)}

\* The total score of a sequence of slide indices: the sum of the scores of
\* its consecutive pairs.
RECURSIVE SeqScore(_, _)
SeqScore(r, s) ==
    IF Len(r) < 2 THEN 0
    ELSE calculer_score(s[r[1] + 1].tags, s[r[2] + 1].tags) + SeqScore(Tail(r), s)

\* The best score of one pair of distinct slides sharing no photo (0 when
\* there is no such pair).
BestPair(s) ==
    MaxOf({0} \cup {calculer_score(s[i + 1].tags, s[j + 1].tags) :
                        <<i, j>> \in {q \in Indices(s) \X Indices(s) :
                                          /\ q[1] # q[2]
                                          /\ IdsOf(s, q[1]) \cap IdsOf(s, q[2]) = {}}})

\* get_solution has returned.
Extracted == pc \in {"ecrire_solution", "done"}

\* C1: whatever feasible assignment the solver hands over, the sequence
\* get_solution returns holds no slide index twice and no photo id in two of
\* its slides.
C1_NoSlideOrPhotoTwice ==
    Extracted =>
        \A a, b \in 1..Len(slides_retenues) :
            a # b =>
                /\ slides_retenues[a] # slides_retenues[b]
                /\ IdsOf(slides, slides_retenues[a]) \cap IdsOf(slides, slides_retenues[b]) = {}

\* C1's case: a returned sequence of two slides or more, one of them a pair
\* of vertical photos.
C1_Witness ==
    /\ pc = "done"
    /\ Len(slides_retenues) >= 2
    /\ \E a \in 1..Len(slides_retenues) : Len(slides[slides_retenues[a] + 1].photo_ids) = 2

\* C2: the score is the least of the three counts (common tags, tags of the
\* first set only, tags of the second set only): a natural number, the same
\* with the arguments swapped, and 0 when the sets are disjoint, one is
\* empty, or one is a subset of the other.
C2_ScoreIsMinOfThree ==
    pc = "scored" =>
        LET c == Cardinality(tags1 \cap tags2)
            u1 == Cardinality(tags1 \ tags2)
            u2 == Cardinality(tags2 \ tags1)
        IN  /\ score \in Nat
            /\ score <= c /\ score <= u1 /\ score <= u2
            /\ score \in {c, u1, u2}
            /\ score = calculer_score(tags2, tags1)
            /\ (\/ tags1 \cap tags2 = {}
                \/ tags1 = {}
                \/ tags2 = {}
                \/ tags1 \subseteq tags2
                \/ tags2 \subseteq tags1) => score = 0

\* C2's case: two tag sets sharing two tags, each with two tags of its own.
C2_Witness == pc = "scored" /\ score = 2

\* C3: creer_slides returns H + C(V,2) slides: first the horizontal photos,
\* one per slide, in input order; then the pairs of vertical photos (a, b),
\* a before b, in lexicographic order, each slide's tags the union of the
\* tags of its two distinct photos.
C3_SlidesAreSinglesThenPairs ==
    pc = "construire_modele" =>
        LET H == CountOrientation(photos, "H")
            V == CountOrientation(photos, "V")
            n == Len(slides)
        IN  /\ 2 * n = 2 * H + V * (V - 1)
            /\ \A k \in 1..n :
                  k <= H =>
                      /\ Len(slides[k].photo_ids) = 1
                      /\ photos[slides[k].photo_ids[1] + 1].orientation = "H"
                      /\ slides[k].tags = photos[slides[k].photo_ids[1] + 1].tags
                      /\ k > 1 => slides[k - 1].photo_ids[1] < slides[k].photo_ids[1]
            /\ \A k \in 1..n :
                  k > H =>
                      LET a == slides[k].photo_ids[1]
                          b == slides[k].photo_ids[2]
                      IN  /\ Len(slides[k].photo_ids) = 2
                          /\ a < b
                          /\ photos[a + 1].orientation = "V"
                          /\ photos[b + 1].orientation = "V"
                          /\ slides[k].tags = photos[a + 1].tags \cup photos[b + 1].tags
                          /\ k > H + 1 =>
                                LET a0 == slides[k - 1].photo_ids[1]
                                    b0 == slides[k - 1].photo_ids[2]
                                IN  a0 < a \/ (a0 = a /\ b0 < b)

\* C3's case: horizontal photos and three vertical photos or more, mixed.
C3_Witness ==
    /\ pc = "construire_modele"
    /\ CountOrientation(photos, "H") >= 2
    /\ CountOrientation(photos, "V") >= 3
    /\ photos[1].orientation = "V"
    /\ photos[2].orientation = "H"

\* C4: on a non-empty universe the optimizer never fails and returns at
\* least one slide, whatever the solver has found when its time is over.
C4_NeverFailsOnNonEmptyUniverse ==
    Len(slides) > 0 =>
        /\ pc # "failed"
        /\ Extracted => Len(slides_retenues) >= 1

\* C5: the sequence extracted from an optimal assignment scores at least as
\* much as the best single pair of slides sharing no photo.
C5_AtLeastBestPair ==
    (Extracted /\ status = "OPTIMAL") =>
        SeqScore(slides_retenues, slides) >= BestPair(slides)

\* C6: a record whose orientation is neither H nor V makes loading followed
\* by slide generation fail: creer_slides never returns normally for it.
C6_UnknownOrientationFails ==
    (\E i \in 1..Len(file.lines) : i <= file.n /\ file.lines[i].orientation \notin {"H", "V"})
        => pc # "construire_modele"

\* C7: a line whose declared tag count differs from the number of tags
\* present makes lire_input fail: it never returns normally for it.
C7_TagCountMismatchFails ==
    (\E i \in 1..Len(file.lines) :
        i <= file.n /\ file.lines[i].num_tags # Len(file.lines[i].tokens))
        => pc \notin {"creer_slides", "construire_modele"}

\* C8: with no horizontal photo and fewer than two vertical photos the
\* pipeline does not fail, returns the empty sequence and writes the count 0.
C8_EmptyUniverseGivesEmptySequence ==
    (/\ pc # "lire_input"
     /\ CountOrientation(photos, "H") = 0
     /\ CountOrientation(photos, "V") < 2) =>
        /\ pc # "failed"
        /\ Extracted => slides_retenues = <<>>
        /\ pc = "done" => output = [count |-> 0, lines |-> <<>>]

\* C8's case: one vertical photo, a model the solver proves infeasible, and
\* the output written.
C8_Witness ==
    /\ pc = "done"
    /\ Len(photos) = 1
    /\ status = "INFEASIBLE"
    /\ output.count = 0

\* C9: when the solver's incumbent improves, the score of the sequence
\* get_solution would extract from it does not decrease.
C9_ExtractedScoreNeverDecreases ==
    [][(/\ pc = "optimize"
        /\ incumbent.SolCount = 1
        /\ incumbent'.SolCount = 1)
          => SeqScore(get_solution(incumbent'.X, slides), slides)
                 >= SeqScore(get_solution(incumbent.X, slides), slides)]_vars

\* C10: the sequence extracted from a feasible assignment scores exactly the
\* objective value of the assignment.
C10_ExtractedScoreIsObjective ==
    Extracted => SeqScore(slides_retenues, slides) = Objective(incumbent.X, slides)

====
